---- MODULE Spec2Model ----
(***************************************************************************)
(* Model of bib2dblp.py: search_dblp_entry (bounded retry against the DBLP *)
(* search API followed by a fetch of the top hit's .bib record) and        *)
(* update_bib_file (the per-entry reconciliation loop with the key         *)
(* preserving merge, the failure list and the two output files).           *)
(*                                                                         *)
(* Python values are modelled as follows: a dict is a function whose       *)
(* DOMAIN is the set of keys present; a title and a URL are sequences of   *)
(* characters/tokens (so that replace() and + ".bib" are computed); a key, *)
(* an author and a record text are strings; None is the string None.       *)
(***************************************************************************)
EXTENDS Integers, Sequences, FiniteSets, TLC

\* ------------------------------------------------------------------ bounds
\* longest bibliography (number of entries of bib_database.entries)
MaxEntries == 2
\* largest max_retries argument of a direct call of search_dblp_entry
MaxRetriesArg == 3

\* ------------------------------------------------------- program constants
\* default of the max_retries parameter
DefaultMaxRetries == 5
\* default of the delay parameter (seconds)
DefaultDelay == 2
\* the pause between two entries (seconds)
EntryPause == 1
\* the only status the code treats as success
HTTP_OK == 200

\* Python's None (the value of a missing result and of dict.get on a miss)
None == "<None>"

\* ------------------------------------------------------------ pure helpers
Range(s) == {s[k] : k \in 1..Len(s)}

\* dict.get(field, default)
Get(d, field, default) == IF field \in DOMAIN d THEN d[field] ELSE default

\* title.replace("{", "").replace("}", "")
IsBrace(c) == c \in {"{", "}"}
StripBraces(t) == SelectSeq(t, LAMBDA c : ~IsBrace(c))

\* title = entry.get("title", "").replace(...)
TitleOf(entry) == StripBraces(Get(entry, "title", <<>>))

\* original_key = entry.get("ID")
KeyOf(entry) == Get(entry, "ID", None)

\* the guard of `continue`: not title or not original_key
Skipped_keyOnly(entry) == KeyOf(entry) \in {None, ""}
Skipped(entry) == TitleOf(entry) = <<>> \/ KeyOf(entry) \in {None, ""}

\* ------------------------------------------------------------- input data
T_Ab == <<"{", "A", "}", "b">>
T_Braces == <<"{", "}">>

Entry(hasId, id, hasTitle, t) ==
  [f \in ({"author"} \cup (IF hasId THEN {"ID"} ELSE {})
                     \cup (IF hasTitle THEN {"title"} ELSE {})) |->
     CASE f = "ID" -> id
       [] f = "title" -> t
       [] OTHER -> "src"]

\* the entries bibtexparser.load can hand to the loop
SourceEntries ==
  {Entry(TRUE, id, TRUE, T_Ab) : id \in {"k1", "k2"}}
  \cup {Entry(TRUE, "k1", TRUE, T_Braces), Entry(TRUE, "k1", FALSE, <<>>),
        Entry(TRUE, "", TRUE, T_Ab), Entry(FALSE, "", TRUE, T_Ab),
        Entry(FALSE, "", FALSE, <<>>)}

SeqsUpTo(S, n) == UNION {[1..k -> S] : k \in 0..n}

\* ------------------------------------------------- the DBLP search service
HitU(u) == [info |-> [url |-> u]]
HitNoUrl == [info |-> [venue |-> <<"v">>]]
HitNoInfo == [score |-> "1"]

HitLists ==
  { <<>>, <<HitU(<<"u1">>)>>, <<HitNoUrl>>, <<HitNoInfo>>, <<HitU(<<>>)>>,
    <<HitNoUrl, HitU(<<"u2">>)>>, <<HitU(<<"u1">>), HitU(<<"u2">>)>> }

\* the decoded JSON bodies; kind "text" is a body resp.json() cannot decode,
\* kind "list" is valid JSON that is no object
JsonBodies ==
  {[kind |-> "text", value |-> <<>>], [kind |-> "list", value |-> <<>>],
   [kind |-> "dict", value |-> [other |-> <<>>]]}
  \cup {[kind |-> "dict", value |-> [result |-> [hits |-> [hit |-> h]]]] : h \in HitLists}

SearchResponses ==
  {[status_code |-> 503, body |-> [kind |-> "text", value |-> <<>>]]}
  \cup {[status_code |-> HTTP_OK, body |-> b] : b \in JsonBodies}

\* exceptions the calls inside the try block can raise; all derive from
\* Exception
ExceptionClasses == {"RequestException", "JSONDecodeError", "AttributeError", "KeyError"}
Catches_requestsOnly(e) == e = "RequestException"
\* except Exception as e
Catches(e) == e \in ExceptionClasses

\* data.get("result", {}).get("hits", {}).get("hit", [])
Hits(data) == Get(Get(Get(data, "result", <<>>), "hits", <<>>), "hit", <<>>)

\* dblp_url truthy: hits[0]["info"].get("url") is neither None nor ""
HasUrl(info) == "url" \in DOMAIN info /\ info["url"] # <<>>

\* bibtex_url = dblp_url + ".bib"
BibtexUrl(dblp_url) == dblp_url \o <<".bib">>

\* ------------------------------------------------- the DBLP record service
C_dblp == [ID |-> "d1", title |-> T_Ab, author |-> "dblp"]
C_same == [ID |-> "d2", title |-> T_Ab, author |-> "src"]

\* bodies a record fetch can answer with
RecordTexts == {"", "<html/>", "@article{d1", "@d1", "@d2", "@d1@d2", "@d2@d1"}

\* bibtexparser.loads(new_bibtex).entries, for the texts the parser accepts
loads(text) ==
  CASE text = "@d1" -> <<C_dblp>>
    [] text = "@d2" -> <<C_same>>
    [] text = "@d1@d2" -> <<C_dblp, C_same>>
    [] text = "@d2@d1" -> <<C_same, C_dblp>>
    [] OTHER -> <<>>
\* the texts on which bibtexparser.loads raises instead of returning
LoadsRaises(text) == text = "@article{d1"

FetchResponses ==
  {[status_code |-> 404, text |-> ""]}
  \cup {[status_code |-> HTTP_OK, text |-> t] : t \in RecordTexts}

\* print(msg) followed by logging.<severity>(msg)
Emit(severity) == [severity |-> severity, sinks |-> {"stdout", "logfile"}]

\* dict[field] = value
SetItem(d, field, value) ==
  [f \in DOMAIN d \cup {field} |-> IF f = field THEN value ELSE d[f]]

\* truth value of a returned record text: None and "" are false
Truthy(text) == text \notin {None, ""}

\* what search_dblp_entry handed back for an entry, as the history records it
Classify(text) ==
  IF text = None THEN "none"
  ELSE IF text = "" \/ loads(text) = <<>> THEN "unusable"
  ELSE "parsed"

\* the query client answered None for every entry recorded in got
AllNone(got) == \A k \in 1..Len(got) : got[k] = "none"

\* ------------------------------------------------------------------ state
VARIABLES
  entries,          \* bib_database.entries of the current run
  run,              \* 1 for the first run, 2 for a run over the first output
  i,                \* position of the for loop (1-based)
  pc,               \* where update_bib_file is
  updated_entries,  \* the output accumulator
  failed_keys,      \* the failure accumulator
  pauses,           \* number of time.sleep(1) calls of this run
  entry_log,        \* messages update_bib_file emitted for the current entry
  files,            \* the output file and failed_keys.txt
  hist,             \* history of the run (which entries were kept, ...)
  title, key, max_retries,   \* arguments of the current search_dblp_entry call
  delay,            \* the delay argument of the call (seconds)
  attempt,          \* the attempt counter of the call
  spc,              \* where search_dblp_entry is
  exc,              \* the exception in flight inside the try block
  bibtex_url,       \* the URL of the record fetch in flight
  new_bibtex,       \* the value the call returned
  count,            \* requests and sleeps of the call so far
  zeroHitAt,        \* number of the first search answered 200 with no hit
  answer,           \* what the search request of the current attempt met
  att,              \* what the current attempt did
  exhausted_log     \* messages of the code after the while loop

searchVars == <<title, key, max_retries, delay, attempt, spc, exc, bibtex_url,
                new_bibtex, count, zeroHitAt, answer, att, exhausted_log>>
updateVars == <<entries, run, i, pc, updated_entries, failed_keys, pauses,
                entry_log, files, hist>>
vars == <<entries, run, i, pc, updated_entries, failed_keys, pauses,
          entry_log, files, hist, title, key, max_retries, delay, attempt, spc,
          exc, bibtex_url, new_bibtex, count, zeroHitAt, answer, att,
          exhausted_log>>

NoCount == [search |-> 0, fetch |-> 0, sleep |-> 0, non200 |-> 0]
NoAttempt == [fetch |-> 0, fetched |-> "none", body |-> None, hits |-> <<>>,
              sleeps |-> 0, slept |-> 0, logs |-> <<>>]
NoFiles == [written |-> {}, output |-> <<>>, failed |-> <<>>]
NoHist == [got |-> <<>>, first_all_none |-> FALSE, first_output |-> <<>>]

\* the state of a call of search_dblp_entry(t, k, m, d) at its first line
Call(t, k, m, d) ==
  /\ title' = t
  /\ key' = k
  /\ max_retries' = m
  /\ delay' = d
  /\ attempt' = 0
  /\ spc' = "while"
  /\ exc' = None
  /\ bibtex_url' = <<>>
  /\ new_bibtex' = None
  /\ count' = NoCount
  /\ zeroHitAt' = 0
  /\ answer' = "none"
  /\ att' = NoAttempt
  /\ exhausted_log' = <<>>

SearchIdle ==
  /\ title = <<>>
  /\ key = None
  /\ max_retries = DefaultMaxRetries
  /\ delay = DefaultDelay
  /\ attempt = 0
  /\ spc = "idle"
  /\ exc = None
  /\ bibtex_url = <<>>
  /\ new_bibtex = None
  /\ count = NoCount
  /\ zeroHitAt = 0
  /\ answer = "none"
  /\ att = NoAttempt
  /\ exhausted_log = <<>>

\* update_bib_file after the load, before the first iteration
Init ==
  /\ entries \in SeqsUpTo(SourceEntries, MaxEntries)
  /\ run = 1
  /\ i = 1
  /\ pc = "for"
  /\ updated_entries = <<>>
  /\ failed_keys = <<>>
  /\ pauses = 0
  /\ entry_log = <<>>
  /\ files = NoFiles
  /\ hist = NoHist
  /\ SearchIdle

\* a direct call search_dblp_entry(title, key, max_retries)
InitSearch ==
  /\ entries = <<>>
  /\ run = 1
  /\ i = 1
  /\ pc = "direct"
  /\ updated_entries = <<>>
  /\ failed_keys = <<>>
  /\ pauses = 0
  /\ entry_log = <<>>
  /\ files = NoFiles
  /\ hist = NoHist
  /\ title = <<"A", "b">>
  /\ key = "k1"
  /\ max_retries \in 0..MaxRetriesArg
  /\ delay \in {DefaultDelay, DefaultDelay + 1}
  /\ attempt = 0
  /\ spc = "while"
  /\ exc = None
  /\ bibtex_url = <<>>
  /\ new_bibtex = None
  /\ count = NoCount
  /\ zeroHitAt = 0
  /\ answer = "none"
  /\ att = NoAttempt
  /\ exhausted_log = <<>>

\* ------------------------------------------------------ search_dblp_entry
\* while attempt < max_retries
LoopContinues_offByOne(a, m) == a <= m
LoopContinues(a, m) == a < m

\* a search answered 200 whose decoded body holds no hit
IsZeroHitAnswer(resp) ==
  /\ resp.status_code = HTTP_OK
  /\ resp.body.kind = "dict"
  /\ Hits(resp.body.value) = <<>>

\* what a search answer amounts to: only its first hit counts
AnswerKind(resp) ==
  IF resp.status_code # HTTP_OK THEN "non200"
  ELSE IF resp.body.kind # "dict" THEN "undecodable"
  ELSE IF Hits(resp.body.value) = <<>> THEN "zero_hits"
  ELSE IF "info" \notin DOMAIN Hits(resp.body.value)[1] THEN "undecodable"
  ELSE IF HasUrl(Hits(resp.body.value)[1]["info"]) THEN "url"
  ELSE "no_url"

\* bookkeeping of an answered search request
Observe(resp) ==
  /\ zeroHitAt' = IF zeroHitAt = 0 /\ IsZeroHitAnswer(resp) THEN count.search ELSE zeroHitAt
  /\ answer' = AnswerKind(resp)

\* attempt += 1; time.sleep(delay) and back to the loop test
NextAttempt ==
  /\ attempt' = attempt + 1
  /\ spc' = "while"

Slept(c) == [c EXCEPT !.sleep = @ + 1]
AttSlept(a) == [a EXCEPT !.sleeps = @ + 1, !.slept = @ + delay]
AttLogged(a, severity) == [a EXCEPT !.logs = Append(@, Emit(severity))]

\* requests.get(search URL) is issued
IssueSearch ==
  /\ spc = "while"
  /\ LoopContinues(attempt, max_retries)
  /\ spc' = "search_req"
  /\ count' = [count EXCEPT !.search = @ + 1]
  /\ att' = NoAttempt
  /\ answer' = "none"
  /\ UNCHANGED <<title, key, max_retries, delay, attempt, exc, bibtex_url, new_bibtex,
                 zeroHitAt, exhausted_log>>
  /\ UNCHANGED updateVars

\* the loop ended without a return
AllFailed ==
  /\ spc = "while"
  /\ ~LoopContinues(attempt, max_retries)
  /\ exhausted_log' = Append(exhausted_log, Emit("error"))
  /\ new_bibtex' = None
  /\ spc' = "returned"
  /\ UNCHANGED <<title, key, max_retries, delay, attempt, exc, bibtex_url, count,
                 zeroHitAt, answer, att>>
  /\ UNCHANGED updateVars

\* requests.get(search URL) raises
SearchRaises ==
  /\ spc = "search_req"
  /\ exc' = "RequestException"
  /\ spc' = "except"
  /\ UNCHANGED <<title, key, max_retries, delay, attempt, bibtex_url, new_bibtex,
                 count, zeroHitAt, att, exhausted_log>>
  /\ answer' = "raised"
  /\ UNCHANGED updateVars

\* resp.status_code != 200
SearchNon200_returns ==
  /\ spc = "search_req"
  /\ \E resp \in SearchResponses :
       /\ resp.status_code # HTTP_OK
       /\ Observe(resp)
  /\ att' = AttLogged(att, "warning")
  /\ count' = [count EXCEPT !.non200 = @ + 1]
  /\ new_bibtex' = None
  /\ spc' = "returned"
  /\ UNCHANGED <<title, key, max_retries, delay, attempt, exc, bibtex_url, exhausted_log>>
  /\ UNCHANGED updateVars
SearchNon200 ==
  /\ spc = "search_req"
  /\ \E resp \in SearchResponses :
       /\ resp.status_code # HTTP_OK
       /\ Observe(resp)
  /\ att' = AttSlept(AttLogged(att, "warning"))
  /\ count' = Slept([count EXCEPT !.non200 = @ + 1])
  /\ NextAttempt
  /\ UNCHANGED <<title, key, max_retries, delay, exc, bibtex_url, new_bibtex, exhausted_log>>
  /\ UNCHANGED updateVars

\* the exception, if any, that decoding resp and reading hits[0]["info"] raises
DecodeError(body) ==
  IF body.kind = "text" THEN "JSONDecodeError"
  ELSE IF body.kind = "list" THEN "AttributeError"
  ELSE IF Hits(body.value) # <<>> /\ "info" \notin DOMAIN Hits(body.value)[1]
       THEN "KeyError"
  ELSE None

\* resp.json(), data.get(...) or hits[0]["info"] raises
SearchUndecodable ==
  /\ spc = "search_req"
  /\ \E resp \in SearchResponses :
       /\ resp.status_code = HTTP_OK
       /\ DecodeError(resp.body) # None
       /\ exc' = DecodeError(resp.body)
       /\ Observe(resp)
  /\ spc' = "except"
  /\ UNCHANGED <<title, key, max_retries, delay, attempt, bibtex_url, new_bibtex,
                 count, att, exhausted_log>>
  /\ UNCHANGED updateVars

\* if not hits: return None
SearchZeroHits_retries ==
  /\ spc = "search_req"
  /\ \E resp \in SearchResponses :
       /\ resp.status_code = HTTP_OK
       /\ DecodeError(resp.body) = None
       /\ Hits(resp.body.value) = <<>>
       /\ Observe(resp)
  /\ att' = AttSlept(AttLogged(att, "info"))
  /\ count' = Slept(count)
  /\ NextAttempt
  /\ UNCHANGED <<title, key, max_retries, delay, exc, bibtex_url, new_bibtex, exhausted_log>>
  /\ UNCHANGED updateVars
SearchZeroHits ==
  /\ spc = "search_req"
  /\ \E resp \in SearchResponses :
       /\ resp.status_code = HTTP_OK
       /\ DecodeError(resp.body) = None
       /\ Hits(resp.body.value) = <<>>
       /\ Observe(resp)
  /\ att' = AttLogged(att, "info")
  /\ new_bibtex' = None
  /\ spc' = "returned"
  /\ UNCHANGED <<title, key, max_retries, delay, attempt, exc, bibtex_url, count,
                 exhausted_log>>
  /\ UNCHANGED updateVars

\* the first hit carries no usable URL: fall through to attempt += 1
SearchHitNoUrl ==
  /\ spc = "search_req"
  /\ \E resp \in SearchResponses :
       /\ resp.status_code = HTTP_OK
       /\ DecodeError(resp.body) = None
       /\ Hits(resp.body.value) # <<>>
       /\ ~HasUrl(Hits(resp.body.value)[1]["info"])
       /\ Observe(resp)
  /\ att' = AttSlept(att)
  /\ count' = Slept(count)
  /\ NextAttempt
  /\ UNCHANGED <<title, key, max_retries, delay, exc, bibtex_url, new_bibtex, exhausted_log>>
  /\ UNCHANGED updateVars

\* requests.get(bibtex_url) is issued for the first hit
SearchHitFetch_anyHit ==
  /\ spc = "search_req"
  /\ \E resp \in SearchResponses :
       /\ resp.status_code = HTTP_OK
       /\ DecodeError(resp.body) = None
       /\ \E h \in 1..Len(Hits(resp.body.value)) :
            /\ HasUrl(Hits(resp.body.value)[h]["info"])
            /\ bibtex_url' = BibtexUrl(Hits(resp.body.value)[h]["info"]["url"])
       /\ att' = [att EXCEPT !.fetch = @ + 1, !.fetched = "pending",
                              !.hits = Hits(resp.body.value)]
       /\ Observe(resp)
  /\ spc' = "fetch_req"
  /\ count' = [count EXCEPT !.fetch = @ + 1]
  /\ UNCHANGED <<title, key, max_retries, delay, attempt, exc, new_bibtex, exhausted_log>>
  /\ UNCHANGED updateVars
SearchHitFetch ==
  /\ spc = "search_req"
  /\ \E resp \in SearchResponses :
       /\ resp.status_code = HTTP_OK
       /\ DecodeError(resp.body) = None
       /\ Hits(resp.body.value) # <<>>
       /\ HasUrl(Hits(resp.body.value)[1]["info"])
       /\ bibtex_url' = BibtexUrl(Hits(resp.body.value)[1]["info"]["url"])
       /\ att' = [att EXCEPT !.fetch = @ + 1, !.fetched = "pending",
                              !.hits = Hits(resp.body.value)]
       /\ Observe(resp)
  /\ spc' = "fetch_req"
  /\ count' = [count EXCEPT !.fetch = @ + 1]
  /\ UNCHANGED <<title, key, max_retries, delay, attempt, exc, new_bibtex, exhausted_log>>
  /\ UNCHANGED updateVars

\* requests.get(bibtex_url) raises
FetchRaises ==
  /\ spc = "fetch_req"
  /\ exc' = "RequestException"
  /\ spc' = "except"
  /\ att' = [att EXCEPT !.fetched = "raised", !.hits = <<>>]
  /\ UNCHANGED <<title, key, max_retries, delay, attempt, bibtex_url, new_bibtex,
                 count, zeroHitAt, answer, exhausted_log>>
  /\ UNCHANGED updateVars

\* bibtex_resp.status_code == 200: return bibtex_resp.text
FetchOk_emptyIsNone ==
  /\ spc = "fetch_req"
  /\ \E resp \in FetchResponses :
       /\ resp.status_code = HTTP_OK
       /\ new_bibtex' = IF resp.text = "" THEN None ELSE resp.text
       /\ att' = [att EXCEPT !.fetched = "ok", !.body = resp.text, !.hits = <<>>]
  /\ spc' = "returned"
  /\ UNCHANGED <<title, key, max_retries, delay, attempt, exc, bibtex_url, count,
                 zeroHitAt, answer, exhausted_log>>
  /\ UNCHANGED updateVars
FetchOk ==
  /\ spc = "fetch_req"
  /\ \E resp \in FetchResponses :
       /\ resp.status_code = HTTP_OK
       /\ new_bibtex' = resp.text
       /\ att' = [att EXCEPT !.fetched = "ok", !.body = resp.text, !.hits = <<>>]
  /\ spc' = "returned"
  /\ UNCHANGED <<title, key, max_retries, delay, attempt, exc, bibtex_url, count,
                 zeroHitAt, answer, exhausted_log>>
  /\ UNCHANGED updateVars

\* the record fetch answered another status: fall through to attempt += 1
FetchNon200_noSleep ==
  /\ spc = "fetch_req"
  /\ \E resp \in FetchResponses : resp.status_code # HTTP_OK
  /\ att' = [att EXCEPT !.fetched = "non200", !.hits = <<>>]
  /\ count' = count
  /\ NextAttempt
  /\ UNCHANGED <<title, key, max_retries, delay, exc, bibtex_url, new_bibtex,
                 zeroHitAt, answer, exhausted_log>>
  /\ UNCHANGED updateVars
FetchNon200 ==
  /\ spc = "fetch_req"
  /\ \E resp \in FetchResponses : resp.status_code # HTTP_OK
  /\ att' = AttSlept([att EXCEPT !.fetched = "non200", !.hits = <<>>])
  /\ count' = Slept(count)
  /\ NextAttempt
  /\ UNCHANGED <<title, key, max_retries, delay, exc, bibtex_url, new_bibtex,
                 zeroHitAt, answer, exhausted_log>>
  /\ UNCHANGED updateVars

\* except Exception as e: log the error, then attempt += 1 and sleep
ExceptHandler ==
  /\ spc = "except"
  /\ IF Catches(exc)
     THEN /\ att' = AttSlept(AttLogged(att, "error"))
          /\ count' = Slept(count)
          /\ exc' = None
          /\ NextAttempt
     ELSE /\ spc' = "propagated"
          /\ UNCHANGED <<att, count, exc, attempt>>
  /\ UNCHANGED <<title, key, max_retries, delay, bibtex_url, new_bibtex,
                 zeroHitAt, answer, exhausted_log>>
  /\ UNCHANGED updateVars

\* --------------------------------------------------------- update_bib_file
\* the state of search_dblp_entry once its caller has taken the result
Forget ==
  /\ title' = <<>>
  /\ key' = None
  /\ max_retries' = DefaultMaxRetries
  /\ delay' = DefaultDelay
  /\ attempt' = 0
  /\ spc' = "idle"
  /\ exc' = None
  /\ bibtex_url' = <<>>
  /\ new_bibtex' = None
  /\ count' = NoCount
  /\ zeroHitAt' = 0
  /\ answer' = "none"
  /\ att' = NoAttempt
  /\ exhausted_log' = <<>>

\* time.sleep(1) and on to the next entry
NextEntry_noPause ==
  /\ pauses' = pauses
  /\ i' = i + 1
  /\ pc' = "for"
NextEntry ==
  /\ pauses' = pauses + 1
  /\ i' = i + 1
  /\ pc' = "for"

\* new_entry = new_db.entries[0]; new_entry["ID"] = original_key
NewEntry_keepsDblpKey(parsed, original_key) == parsed[1]
NewEntry_lastParsed(parsed, original_key) == SetItem(parsed[Len(parsed)], "ID", original_key)
NewEntry(parsed, original_key) == SetItem(parsed[1], "ID", original_key)

\* updated_entries.append(entry): the original entry, as it was loaded
KeptEntry_stripped(entry) == SetItem(entry, "title", TitleOf(entry))
KeptEntry(entry) == entry

\* failed_keys after an entry was replaced
FailedAfterReplace_appends(failed, original_key) == Append(failed, original_key)
FailedAfterReplace(failed, original_key) == failed

\* failed_keys after an entry was kept
FailedAfterKeep_twice(failed, original_key) == Append(Append(failed, original_key), original_key)
FailedAfterKeep(failed, original_key) == Append(failed, original_key)

\* if not title or not original_key: continue
SkipEntry_listsKey ==
  /\ pc = "for"
  /\ i <= Len(entries)
  /\ Skipped(entries[i])
  /\ i' = i + 1
  /\ failed_keys' = Append(failed_keys, KeyOf(entries[i]))
  /\ UNCHANGED <<entries, run, pc, updated_entries, pauses, entry_log, files, hist>>
  /\ UNCHANGED searchVars
SkipEntry ==
  /\ pc = "for"
  /\ i <= Len(entries)
  /\ Skipped(entries[i])
  /\ i' = i + 1
  /\ UNCHANGED <<entries, run, pc, updated_entries, failed_keys, pauses,
                 entry_log, files, hist>>
  /\ UNCHANGED searchVars

\* log the start of the search and call search_dblp_entry(title, original_key)
StartEntry ==
  /\ pc = "for"
  /\ i <= Len(entries)
  /\ ~Skipped(entries[i])
  /\ entry_log' = <<Emit("info")>>
  /\ Call(TitleOf(entries[i]), KeyOf(entries[i]), DefaultMaxRetries, DefaultDelay)
  /\ pc' = "in_search"
  /\ UNCHANGED <<entries, run, i, updated_entries, failed_keys, pauses, files, hist>>

\* bibtexparser.loads(new_bibtex) raises: nothing in update_bib_file catches it
ParseAborts ==
  /\ pc = "in_search"
  /\ spc = "returned"
  /\ Truthy(new_bibtex)
  /\ LoadsRaises(new_bibtex)
  /\ pc' = "aborted"
  /\ UNCHANGED <<entries, run, i, updated_entries, failed_keys, pauses,
                 entry_log, files, hist>>
  /\ Forget

\* new_db.entries is not empty: the entry is replaced
Replace ==
  /\ pc = "in_search"
  /\ spc = "returned"
  /\ Truthy(new_bibtex)
  /\ ~LoadsRaises(new_bibtex)
  /\ loads(new_bibtex) # <<>>
  /\ updated_entries' =
       Append(updated_entries, NewEntry(loads(new_bibtex), KeyOf(entries[i])))
  /\ failed_keys' = FailedAfterReplace(failed_keys, KeyOf(entries[i]))
  /\ hist' = [hist EXCEPT !.got = Append(@, Classify(new_bibtex))]
  /\ NextEntry
  /\ UNCHANGED <<entries, run, entry_log, files>>
  /\ Forget

\* new_db.entries is empty: warn and keep the original entry
KeepUnparsed ==
  /\ pc = "in_search"
  /\ spc = "returned"
  /\ Truthy(new_bibtex)
  /\ ~LoadsRaises(new_bibtex)
  /\ loads(new_bibtex) = <<>>
  /\ entry_log' = Append(entry_log, Emit("warning"))
  /\ updated_entries' = Append(updated_entries, KeptEntry(entries[i]))
  /\ failed_keys' = FailedAfterKeep(failed_keys, KeyOf(entries[i]))
  /\ hist' = [hist EXCEPT !.got = Append(@, Classify(new_bibtex))]
  /\ NextEntry
  /\ UNCHANGED <<entries, run, files>>
  /\ Forget

\* new_bibtex is None or empty: keep the original entry
KeepNoRecord ==
  /\ pc = "in_search"
  /\ spc = "returned"
  /\ ~Truthy(new_bibtex)
  /\ entry_log' = Append(entry_log, Emit("info"))
  /\ updated_entries' = Append(updated_entries, KeptEntry(entries[i]))
  /\ failed_keys' = FailedAfterKeep(failed_keys, KeyOf(entries[i]))
  /\ hist' = [hist EXCEPT !.got = Append(@, Classify(new_bibtex))]
  /\ NextEntry
  /\ UNCHANGED <<entries, run, files>>
  /\ Forget

\* for key in failed_keys: f.write(key + "\n")
FailedLines(failed) == [k \in 1..Len(failed) |-> <<failed[k], "\n">>]

\* if failed_keys: the guard of the failure-keys file
WritesFailedFile_always(failed) == TRUE
WritesFailedFile(failed) == failed # <<>>

\* the entries handed to bibtexparser.dump, then the failure-keys file
WriteFiles ==
  /\ pc = "for"
  /\ i > Len(entries)
  /\ files' =
       [written |-> {"output_file"} \cup
                    (IF WritesFailedFile(failed_keys) THEN {"failed_keys.txt"} ELSE {}),
        output |-> updated_entries,
        failed |-> IF WritesFailedFile(failed_keys)
                   THEN FailedLines(failed_keys) ELSE files.failed]
  /\ pc' = "done"
  /\ UNCHANGED <<entries, run, i, updated_entries, failed_keys, pauses,
                 entry_log, hist>>
  /\ UNCHANGED searchVars

\* update_bib_file is run a second time, on the entries the first run put out;
\* the second run is followed only after a first run in which the query
\* client answered None throughout
Rerun ==
  /\ pc = "done"
  /\ run = 1
  /\ AllNone(hist.got)
  /\ run' = 2
  /\ entries' = files.output
  /\ i' = 1
  /\ pc' = "for"
  /\ updated_entries' = <<>>
  /\ failed_keys' = <<>>
  /\ pauses' = 0
  /\ entry_log' = <<>>
  /\ files' = [files EXCEPT !.written = {}]
  /\ hist' = [got |-> <<>>, first_all_none |-> AllNone(hist.got),
               first_output |-> updated_entries]
  /\ UNCHANGED searchVars

UpdateStep ==
  \/ SkipEntry
  \/ StartEntry
  \/ ParseAborts
  \/ Replace
  \/ KeepUnparsed
  \/ KeepNoRecord
  \/ WriteFiles
  \/ Rerun

SearchStep ==
  \/ IssueSearch
  \/ AllFailed
  \/ SearchRaises
  \/ SearchNon200
  \/ SearchUndecodable
  \/ SearchZeroHits
  \/ SearchHitNoUrl
  \/ SearchHitFetch
  \/ FetchRaises
  \/ FetchOk
  \/ FetchNon200
  \/ ExceptHandler

NextSearch == SearchStep
SpecSearch == InitSearch /\ [][NextSearch]_vars

Next == SearchStep \/ UpdateStep
Spec == Init /\ [][Next]_vars

\* one run of update_bib_file: the steps of the program, without the second
\* invocation
RunStep ==
  \/ SearchStep
  \/ SkipEntry
  \/ StartEntry
  \/ ParseAborts
  \/ Replace
  \/ KeepUnparsed
  \/ KeepNoRecord
  \/ WriteFiles

\* the interpreter keeps executing and every HTTP call answers or raises
FairSpec == Spec /\ WF_vars(RunStep)

\* ------------------------------------------------------------ properties
\* an entry that has a key and a title (the title the loop extracts, braces
\* stripped, is not empty)
HasTitleAndKey(entry) ==
  /\ "ID" \in DOMAIN entry
  /\ entry["ID"] # ""
  /\ "title" \in DOMAIN entry
  /\ \E k \in 1..Len(entry["title"]) : entry["title"][k] \notin {"{", "}"}

\* the input entries that have a title and a key, in input order
ValidInputs == SelectSeq(entries, HasTitleAndKey)

\* the entries bibtexparser can parse out of a record text of the service
CanonicalEntries == UNION {Range(loads(t)) : t \in RecordTexts}

\* out is what becomes of the source entry src: src itself or a canonical
\* record filed under the key of src
Corresponds(out, src) ==
  \/ out = src
  \/ \E c \in CanonicalEntries :
       /\ DOMAIN out = DOMAIN c
       /\ \A f \in DOMAIN c \ {"ID"} : out[f] = c[f]
       /\ out["ID"] = src["ID"]

HasLog(logs, severity) == \E k \in 1..Len(logs) : logs[k].severity = severity

\* C1 (retry bound): when every search request of a call was answered with a
\* non-200 status, the call has issued exactly max_retries search requests and
\* no record fetch and returns None; a call whose last search was answered
\* non-200 has returned only by exhausting the bound.
C1_RetryBound ==
  /\ (spc = "returned" /\ count.non200 = count.search)
       => /\ count.search = max_retries
          /\ count.fetch = 0
          /\ new_bibtex = None
  /\ (spc = "returned" /\ HasLog(att.logs, "warning"))
       => /\ attempt = max_retries
          /\ exhausted_log # <<>>

C1_Witness ==
  /\ spc = "returned"
  /\ max_retries >= 2
  /\ count.non200 = max_retries
  /\ count.search = max_retries

\* C2 (zero-hit short-circuit): once a search was answered 200 with no hit,
\* the call has returned None, that search is the last request of the call,
\* its attempt fetched no record and slept not at all, and the sleeps of the
\* call are those of the attempts before it; a zero-hit answer to the first
\* search leaves exactly one search request.
C2_ZeroHitShortCircuit ==
  zeroHitAt # 0 =>
    /\ spc = "returned"
    /\ new_bibtex = None
    /\ count.search = zeroHitAt
    /\ attempt = zeroHitAt - 1
    /\ att.fetch = 0
    /\ att.sleeps = 0
    /\ count.sleep = zeroHitAt - 1
    /\ exhausted_log = <<>>

C2_Witness ==
  /\ zeroHitAt = 2
  /\ spc = "returned"
  /\ count.search = 2

\* C3 (order preservation): when update_bib_file has finished, the output has
\* as many entries as the input has entries with a title and a key, and the
\* k-th output entry corresponds to the k-th such input entry.
C3_OrderPreservation ==
  pc = "done" =>
    /\ Len(updated_entries) = Len(ValidInputs)
    /\ \A k \in 1..Len(updated_entries) : Corresponds(updated_entries[k], ValidInputs[k])

C3_Witness ==
  /\ pc = "done"
  /\ run = 1
  /\ Len(entries) = 2
  /\ Len(updated_entries) = 1
  /\ ~HasTitleAndKey(entries[1])
  /\ hist.got = <<"parsed">>

\* C4 (key stability): every output entry, replaced or kept, carries the key
\* of the source entry it stands for; a key of a fetched record is an output
\* key only where it is the original key.
C4_KeyStability ==
  /\ Len(updated_entries) <= Len(ValidInputs)
  /\ \A k \in 1..Len(updated_entries) :
       /\ "ID" \in DOMAIN updated_entries[k]
       /\ updated_entries[k]["ID"] = ValidInputs[k]["ID"]
       /\ \A c \in CanonicalEntries :
            updated_entries[k]["ID"] = c["ID"] => c["ID"] = ValidInputs[k]["ID"]

C4_Witness ==
  /\ pc = "done"
  /\ Len(updated_entries) = 2
  /\ hist.got[1] = "parsed"
  /\ hist.got[2] # "parsed"
  /\ updated_entries[1]["ID"] # updated_entries[2]["ID"]

\* positions of the output whose entry was kept as the original
KeptPositions == {k \in 1..Len(hist.got) : hist.got[k] # "parsed"}

\* the keys of the kept entries, in output order
RECURSIVE KeptKeys(_)
KeptKeys(n) ==
  IF n = 0 THEN <<>>
  ELSE IF n \in KeptPositions
       THEN Append(KeptKeys(n - 1), ValidInputs[n]["ID"])
       ELSE KeptKeys(n - 1)

\* C5 as stated (failure list soundness): after the run, an entry's key is in
\* the failure list if and only if its output entry is identical to its source
\* entry.
C5_FailureIffIdentical ==
  pc = "done" =>
    \A k \in 1..Len(updated_entries) :
      (ValidInputs[k]["ID"] \in Range(failed_keys)) <=> (updated_entries[k] = ValidInputs[k])

\* C5 as amended: after the run, the failure list is the list of the keys of
\* the entries that were not replaced, in order, and the output entry of each
\* of them is identical to its source entry.
C5_FailureListIsKeptKeys ==
  pc = "done" =>
    /\ Len(hist.got) = Len(updated_entries)
    /\ failed_keys = KeptKeys(Len(updated_entries))
    /\ \A k \in KeptPositions : updated_entries[k] = ValidInputs[k]

C5_Witness ==
  /\ pc = "done"
  /\ Len(updated_entries) = 2
  /\ hist.got[1] = "parsed"
  /\ updated_entries[1] = ValidInputs[1]
  /\ hist.got[2] = "unusable"
  /\ failed_keys = <<ValidInputs[2]["ID"]>>

\* C6 as stated (no per-entry abort): no exception raised while an entry is
\* reconciled aborts update_bib_file.
C6_NoPerEntryAbort == pc # "aborted"

\* C7 (exceptions stay inside the retry loop): no exception leaves
\* search_dblp_entry, which returns a record text or None; the step that
\* handles a raised exception consumes exactly one attempt, issues no request
\* and goes back to the loop test.
C7_ExceptionsStayInside ==
  /\ [](/\ spc # "propagated"
        /\ spc = "returned" => new_bibtex \in RecordTexts \cup {None})
  /\ [][spc = "except" =>
          /\ attempt' = attempt + 1
          /\ spc' = "while"
          /\ count'.search = count.search
          /\ count'.fetch = count.fetch]_vars

C7_Witness ==
  /\ spc = "returned"
  /\ HasLog(att.logs, "error")
  /\ attempt = max_retries
  /\ max_retries >= 2
  /\ count.fetch >= 1

\* C8 (replacement merge): when the call returned a record text that parses
\* into one or more entries, the next step appends exactly one entry, the
\* first parsed entry with its key set to the original key and every other
\* field as parsed, and leaves the failure list alone.
C8_ReplacementMerge ==
  [][(/\ pc = "in_search"
      /\ spc = "returned"
      /\ Classify(new_bibtex) = "parsed"
      /\ ~LoadsRaises(new_bibtex))
     => /\ Len(updated_entries') = Len(updated_entries) + 1
        /\ SubSeq(updated_entries', 1, Len(updated_entries)) = updated_entries
        /\ LET out == updated_entries'[Len(updated_entries')]
               first == loads(new_bibtex)[1]
           IN /\ DOMAIN out = DOMAIN first \cup {"ID"}
              /\ out["ID"] = entries[i]["ID"]
              /\ \A f \in DOMAIN first \ {"ID"} : out[f] = first[f]
        /\ failed_keys' = failed_keys]_vars

C8_Witness ==
  /\ pc = "done"
  /\ hist.got = <<"parsed", "parsed">>
  /\ updated_entries[1]["author"] = "dblp"
  /\ updated_entries[2]["author"] = "src"
  /\ failed_keys = <<>>

\* C9 (failure-keys file): at the end of a completed run the failure-keys file
\* has been written exactly when the failure list is not empty, and then holds
\* the failure list, one key per line, in order; the output file has been
\* written, with one entry per valid source entry.
C9_FailureKeysFile ==
  pc = "done" =>
    /\ ("failed_keys.txt" \in files.written) <=> (failed_keys # <<>>)
    /\ "failed_keys.txt" \in files.written =>
         /\ Len(files.failed) = Len(failed_keys)
         /\ \A k \in 1..Len(failed_keys) : files.failed[k] = <<failed_keys[k], "\n">>
    /\ "output_file" \in files.written
    /\ Len(files.output) = Len(ValidInputs)

C9_Witness ==
  /\ pc = "done"
  /\ Len(failed_keys) = 2
  /\ "failed_keys.txt" \in files.written
  /\ Len(files.failed) = 2

\* C10 (idempotence on no-op): when the query client answered None for every
\* entry, the output is the input without the entries lacking a title or a
\* key and every output key is in the failure list; a second run over that
\* output, again with None for every entry, puts out the same sequence.
C10_IdempotentNoOp ==
  (pc = "done" /\ AllNone(hist.got)) =>
    /\ updated_entries = ValidInputs
    /\ \A k \in 1..Len(updated_entries) : updated_entries[k]["ID"] \in Range(failed_keys)
    /\ (run = 2 /\ hist.first_all_none) => updated_entries = hist.first_output

C10_Witness ==
  /\ pc = "done"
  /\ run = 2
  /\ hist.first_all_none
  /\ AllNone(hist.got)
  /\ Len(updated_entries) = 2
  /\ updated_entries = hist.first_output

\* an attempt is over: the call is back at the loop test or has returned
AttemptOver == count.search > 0 /\ spc \in {"while", "returned"}

\* the severity the outcome of an attempt calls for
SeverityFor(kind) ==
  CASE kind = "zero_hits" -> "info"
    [] kind \in {"non200", "no_url", "url"} -> "warning"
    [] OTHER -> "error"

\* C11 as stated (every attempt logs): every attempt that did not return a
\* record has emitted at least one message, each message went to stdout and
\* to the log file, and one of them has the severity of the outcome (info for
\* zero hits, warning for a non-200 answer, error for an exception); this
\* includes the attempts ended by a hit without URL or by a non-200 fetch.
C11_EveryAttemptLogs ==
  (AttemptOver /\ att.fetched # "ok") =>
    /\ att.logs # <<>>
    /\ \A k \in 1..Len(att.logs) : att.logs[k].sinks = {"stdout", "logfile"}
    /\ HasLog(att.logs,
              IF att.fetched = "raised" THEN "error" ELSE SeverityFor(answer))

\* the call returned a text that came with a 200 record fetch and that the
\* parser reads without raising and without finding an entry
UnparsableRecord ==
  /\ pc = "in_search"
  /\ spc = "returned"
  /\ att.fetched = "ok"
  /\ new_bibtex = att.body
  /\ ~LoadsRaises(new_bibtex)
  /\ loads(new_bibtex) = <<>>

\* C12 as stated (malformed or empty canonical record): when the record fetch
\* answered 200 with a body that yields no entry, the empty body included,
\* the next step logs a warning, appends the original entry unchanged and the
\* original key to the failure list, and goes on to the next entry without
\* another request.
C12_UnparsableRecordWarns ==
  [][UnparsableRecord =>
       /\ entry_log' = Append(entry_log, Emit("warning"))
       /\ updated_entries' = Append(updated_entries, entries[i])
       /\ failed_keys' = Append(failed_keys, entries[i]["ID"])
       /\ i' = i + 1
       /\ spc' = "idle"]_vars

\* C13 (top hit only, then fall through): a record fetch is in flight only
\* after a 200 search whose first hit carries a URL, it goes to that URL with
\* ".bib" appended and is the only fetch of its attempt; an attempt whose
\* search was non-200, raised, could not be decoded, had zero hits or had a
\* first hit without URL issues no fetch; a 200 fetch returns its body without
\* consuming the attempt; after a first hit without URL or a non-200 fetch the
\* attempt is consumed and the call is back at the loop test, from where the
\* only request it can issue is a search.
C13_TopHitOnly ==
  /\ [](/\ att.fetch <= 1
        /\ count.fetch <= count.search
        /\ (att.fetch = 1) <=> (answer = "url")
        /\ spc = "fetch_req" =>
             /\ att.hits # <<>>
             /\ HasUrl(att.hits[1]["info"])
             /\ bibtex_url = att.hits[1]["info"]["url"] \o <<".bib">>
        /\ (spc = "returned" /\ att.fetched = "ok") =>
             /\ new_bibtex = att.body
             /\ attempt = count.search - 1
        /\ (AttemptOver /\ (answer = "no_url" \/ att.fetched = "non200")) =>
             /\ attempt = count.search
             /\ spc = "returned" => exhausted_log # <<>>)
  /\ [][/\ count'.fetch # count.fetch =>
             /\ spc = "search_req"
             /\ count'.fetch = count.fetch + 1
             /\ count'.search = count.search
        /\ (spc = "while" /\ spc' # "returned") =>
             /\ spc' = "search_req"
             /\ count'.search = count.search + 1
             /\ count'.fetch = count.fetch]_searchVars

C13_Witness ==
  /\ spc = "fetch_req"
  /\ Len(att.hits) = 2
  /\ attempt = 2
  /\ count.fetch = 2

\* C14 (backoff after every failed attempt): while an attempt is under way it
\* has not slept; an attempt that ended without a return (non-200 search,
\* exception, first hit without URL, non-200 fetch) has slept exactly once,
\* for `delay`, before the loop test that leads to the next search or to the
\* exhaustion return, the last attempt included; an attempt that returned a
\* record or zero hits has not slept; the call has slept once per consumed
\* attempt.
C14_BackoffAfterFailure ==
  /\ spc \in {"search_req", "fetch_req", "except"} => att.sleeps = 0
  /\ (spc = "while" /\ count.search > 0) => (att.sleeps = 1 /\ att.slept = delay)
  /\ (spc = "returned" /\ exhausted_log # <<>> /\ count.search > 0)
       => (att.sleeps = 1 /\ att.slept = delay /\ attempt = max_retries)
  /\ (spc = "returned" /\ exhausted_log = <<>>)
       => (att.sleeps = 0 /\ (att.fetched = "ok" \/ answer = "zero_hits"))
  /\ spc \in {"while", "search_req", "fetch_req", "except", "returned"}
       => count.sleep = attempt

C14_Witness ==
  /\ spc = "returned"
  /\ exhausted_log # <<>>
  /\ max_retries = 3
  /\ att.fetched = "non200"
  /\ att.sleeps = 1
  /\ count.sleep = 3

\* C15 (inter-entry pacing): update_bib_file has paused exactly once per
\* entry it has put out, whatever the outcome of the entry; the pause of an
\* entry comes with the step that puts the entry out, so before the first
\* search request of the next entry; the retry sleeps of search_dblp_entry
\* neither add nor replace a pause.
C15_InterEntryPause ==
  /\ [](pauses = Len(updated_entries))
  /\ [][/\ (run' = run /\ Len(updated_entries') # Len(updated_entries)) =>
             /\ Len(updated_entries') = Len(updated_entries) + 1
             /\ pauses' = pauses + 1
             /\ spc' = "idle"
        /\ (spc' \notin {"idle", "while"} \/ count'.sleep > count.sleep) =>
             pauses' = pauses]_vars

C15_Witness ==
  /\ pc = "in_search"
  /\ spc = "search_req"
  /\ pauses = 1
  /\ count.search = 2
  /\ count.sleep = 1
  /\ hist.got = <<"parsed">>

\* the entries before position n that have a title and a key
ValidBefore(n) == SelectSeq(SubSeq(entries, 1, n - 1), HasTitleAndKey)

\* C16 (silent skip): when the loop is at an entry with no key, no title or a
\* title that is empty once its braces are stripped, its next step only moves
\* to the next entry: no output entry, no failure key, no message, no pause,
\* no request and no file; and between entries the output holds exactly the
\* entries before the position that have a title and a key, so a skipped entry
\* leaves the entries around it as they would be without it.
C16_SilentSkip ==
  /\ [](pc = "for" =>
          /\ Len(updated_entries) = Len(ValidBefore(i))
          /\ \A k \in 1..Len(updated_entries) :
               Corresponds(updated_entries[k], ValidBefore(i)[k]))
  /\ [][(pc = "for" /\ i <= Len(entries) /\ ~HasTitleAndKey(entries[i])) =>
          /\ i' = i + 1
          /\ pc' = "for"
          /\ UNCHANGED <<entries, run, updated_entries, failed_keys, pauses,
                         entry_log, files, hist>>
          /\ UNCHANGED searchVars]_vars

C16_Witness ==
  /\ pc = "done"
  /\ Len(entries) = 2
  /\ HasTitleAndKey(entries[1])
  /\ "title" \in DOMAIN entries[2]
  /\ entries[2]["title"] = T_Braces
  /\ Len(updated_entries) = 1
  /\ Len(entry_log) = 2

\* s extends t by at most n elements appended at the end
ExtendsBy(s, t, n) ==
  /\ Len(s) >= Len(t)
  /\ Len(s) <= Len(t) + n
  /\ SubSeq(s, 1, Len(t)) = t

\* s is a subsequence of t
RECURSIVE IsSubseq(_, _)
IsSubseq(s, t) ==
  IF s = <<>> THEN TRUE
  ELSE IF t = <<>> THEN FALSE
  ELSE IF Head(s) = Head(t) THEN IsSubseq(Tail(s), Tail(t))
  ELSE IsSubseq(s, Tail(t))

OutputKeys == [k \in 1..Len(updated_entries) |-> updated_entries[k]["ID"]]

\* C17 (append-only accumulators, flushed once): within a run every step
\* leaves the output list and the failure list as they are or appends one
\* element at their end, the failure list only together with the output list;
\* the failure list is a subsequence of the keys of the output list; no file
\* is written while an entry is still to be processed, and the files are
\* written in the one step that ends the run.
C17_AppendOnlyFlushedOnce ==
  /\ [](/\ IsSubseq(failed_keys, OutputKeys)
        /\ pc # "done" => files.written = {})
  /\ [][run' = run =>
          /\ ExtendsBy(updated_entries', updated_entries, 1)
          /\ ExtendsBy(failed_keys', failed_keys, 1)
          /\ failed_keys' # failed_keys => updated_entries' # updated_entries
          /\ updated_entries' # updated_entries => i' = i + 1
          /\ files' # files =>
               /\ pc = "for"
               /\ i > Len(entries)
               /\ pc' = "done"]_vars

C17_Witness ==
  /\ pc = "done"
  /\ hist.got = <<"parsed", "none">>
  /\ Len(updated_entries) = 2
  /\ failed_keys = <<updated_entries[2]["ID"]>>
  /\ files.written = {"output_file", "failed_keys.txt"}

\* requests of the current call that have been issued and not yet answered
InFlight == Cardinality({r \in {"search_req", "fetch_req"} : spc = r})

\* C18 (sequential bounded run): with every HTTP call answering or raising, a
\* run that is under way comes to its end; a call issues at most 5 search
\* requests and at most 5 record fetches; a request is issued only while the
\* loop waits at one entry, and the loop moves to another entry only when no
\* request is pending; at most one request is in flight.
C18_SequentialBoundedRun ==
  /\ [](/\ count.search <= 5
        /\ count.fetch <= 5
        /\ InFlight <= 1
        /\ pc \in {"for", "done", "aborted"} => InFlight = 0)
  /\ [][/\ (count'.search > count.search \/ count'.fetch > count.fetch) =>
             /\ pc = "in_search"
             /\ pc' = "in_search"
             /\ i' = i
        /\ i' # i => (InFlight = 0 /\ spc' = "idle")]_vars
  /\ (pc \in {"for", "in_search"}) ~> (pc \in {"done", "aborted"})

C18_Witness ==
  /\ pc = "done"
  /\ run = 1
  /\ Len(updated_entries) = 2
  /\ hist.got = <<"none", "parsed">>

\* the attempt that just ended was decisive: its search answered 200 with a
\* first hit carrying a URL and its record fetch answered 200
Decisive == answer = "url" /\ att.fetched = "ok"

\* C19 (result is decided by the first decisive attempt): a call that has
\* returned hands back a record text exactly when its last attempt, one of
\* the first max_retries, was decisive and no search before it had answered
\* with zero hits, and the text is the body of that fetch; otherwise it hands
\* back None; the "all attempts failed" error has been emitted, once, exactly
\* when all max_retries attempts were consumed, and so never with a zero-hit
\* or a record return.
C19_FirstDecisiveAttempt ==
  spc = "returned" =>
    /\ (new_bibtex # None) <=> Decisive
    /\ Decisive =>
         /\ new_bibtex = att.body
         /\ new_bibtex \in RecordTexts
         /\ zeroHitAt = 0
         /\ count.search <= max_retries
    /\ ~Decisive => new_bibtex = None
    /\ (exhausted_log # <<>>) <=> (attempt = max_retries)
    /\ exhausted_log \in {<<>>, <<Emit("error")>>}
    /\ exhausted_log # <<>> => (zeroHitAt = 0 /\ ~Decisive)
    /\ (zeroHitAt # 0 \/ Decisive) => attempt < max_retries

C19_Witness ==
  /\ spc = "returned"
  /\ Decisive
  /\ new_bibtex = ""
  /\ attempt = 2
  /\ max_retries = 3

====
